---- MODULE Spec2Model ----
(***************************************************************************)
(* A model of graftr.py: the node classes (_Node, _DirNode, DictNode,      *)
(* PartialNode, ValueNode), the Tree (build, insert, resolve,              *)
(* resolve_path), the serializer (state_dict) and the shell commands that  *)
(* change the tree (cd, mv, cp, rm, default), save and exit, and the       *)
(* construction of the shell (load_checkpoint_path, __init__).             *)
(*                                                                         *)
(* Strings are sequences of one-character strings, so that split, join,    *)
(* startswith, _dirname and _basename are computed as the code computes    *)
(* them.  Python objects live in an arena `node` indexed by small          *)
(* integers; Leaf values live in `heap` and a ValueNode holds a reference  *)
(* to its value, so that aliasing of values is expressible.                *)
(***************************************************************************)
EXTENDS Integers, Sequences, FiniteSets, TLC

VARIABLES
    node,    \* the arena of _Node objects: id -> [kind, name, parent, children, ref]
    heap,    \* value storage: ref -> value (0 = unused)
    cwd,     \* CheckpointShell._cwd (a node id)
    prevwd,  \* CheckpointShell._prevwd (a path string)
    dirty,   \* CheckpointShell._dirty
    out,     \* the command just executed and what it reported
    pc,      \* where the program is: "new", "loading", "loaded", "built", "run",
             \* "crashed", "exited", ...
    steps,   \* number of commands executed so far
    inp,     \* CheckpointShell._state: the loaded mapping
    ser,     \* the mapping last produced by root.state_dict()
    _path,   \* CheckpointShell._path: where save writes by default
    disk     \* the files: file path -> the mapping stored there, if any

vars == <<node, heap, cwd, prevwd, dirty, out, pc, steps, inp, ser, _path, disk>>

-----------------------------------------------------------------------------
(* Bounds *)

MaxNodes == 7      \* size of the object arena
MaxSteps == 2      \* number of shell commands in one session
MaxLen == 2      \* number of top-level keys of a generated mapping
MaxInner == 1      \* number of keys of a generated nested mapping

Ids == 0 .. (MaxNodes - 1)
None == -1
Root == 0

-----------------------------------------------------------------------------
(* Strings *)

Slash == "/"
Dot == "."

\* str.split(sep): always one more piece than there are separators
RECURSIVE SplitFrom(_, _, _, _, _)
SplitFrom(s, sep, i, cur, acc) ==
    IF i > Len(s) THEN Append(acc, cur)
    ELSE IF s[i] = sep THEN SplitFrom(s, sep, i + 1, <<>>, Append(acc, cur))
    ELSE SplitFrom(s, sep, i + 1, Append(cur, s[i]), acc)

Split(s, sep) == SplitFrom(s, sep, 1, <<>>, <<>>)

\* sep.join(parts)
RECURSIVE Join(_, _)
Join(parts, sep) ==
    IF parts = <<>> THEN <<>>
    ELSE IF Len(parts) = 1 THEN parts[1]
    ELSE parts[1] \o <<sep>> \o Join(Tail(parts), sep)

\* s.startswith(p)
StartsWith(s, p) == Len(p) <= Len(s) /\ SubSeq(s, 1, Len(p)) = p

\* '.' in name
HasDot(name) == \E i \in 1 .. Len(name) : name[i] = Dot

\* list[:-1]
ButLast(s) == SubSeq(s, 1, Len(s) - 1)

Last(s) == s[Len(s)]

\* reversed(parts)
Reversed(s) == [i \in 1 .. Len(s) |-> s[Len(s) + 1 - i]]

\* re.sub(r'/+', '/', path)
RECURSIVE Squeeze(_)
Squeeze(p) ==
    IF Len(p) < 2 THEN p
    ELSE IF p[1] = Slash /\ p[2] = Slash THEN Squeeze(Tail(p))
    ELSE <<p[1]>> \o Squeeze(Tail(p))

_dirname(path) ==
    LET parts == ButLast(Split(Squeeze(path), Slash))
    IN  IF Len(parts) = 1 /\ parts[1] = <<>> THEN <<Slash>>
        ELSE Join(parts, Slash)

_basename(path) == Last(Split(Squeeze(path), Slash))

-----------------------------------------------------------------------------
(* Mappings (Python dicts keep insertion order: a mapping is a sequence of *)
(* entries with distinct keys)                                             *)

LeafV(v) == [t |-> "leaf", v |-> v, m |-> <<>>]
DictV(m) == [t |-> "dict", v |-> 0, m |-> m]
Entry(k, val) == [k |-> k, val |-> val]

KeysOf(m) == {m[i].k : i \in 1 .. Len(m)}

HasKey(m, k) == \E i \in 1 .. Len(m) : m[i].k = k

\* m[k]
Get(m, k) == m[CHOOSE i \in 1 .. Len(m) : m[i].k = k].val

\* m[k] = val: an existing key keeps its position, a new key goes last
Put(m, k, val) ==
    IF HasKey(m, k)
    THEN [i \in 1 .. Len(m) |-> IF m[i].k = k THEN Entry(k, val) ELSE m[i]]
    ELSE Append(m, Entry(k, val))

\* ret.update(other)
RECURSIVE Update(_, _)
Update(m, other) ==
    IF other = <<>> THEN m
    ELSE Update(Put(m, other[1].k, other[1].val), Tail(other))

-----------------------------------------------------------------------------
(* Node model *)

FreeNode == [kind |-> "Free", name |-> <<>>, parent |-> None,
             children |-> <<>>, ref |-> None]

\* _Node.__init__ / _DirNode.__init__ / ValueNode.__init__
NewNode(kind, name, parent, ref) ==
    [kind |-> kind, name |-> name, parent |-> parent,
     children |-> <<>>, ref |-> ref]

EmptyArena == [i \in Ids |-> FreeNode]
EmptyHeap == [r \in Ids |-> 0]

IsFree(nd, i) == nd[i].kind = "Free"
HasFree(nd, n) == Cardinality({i \in Ids : IsFree(nd, i)}) >= n

\* object allocation: the lowest free slot of the arena
Alloc(nd) == CHOOSE i \in Ids : IsFree(nd, i) /\ \A j \in Ids : IsFree(nd, j) => i <= j

RefsUsed(nd) == {nd[i].ref : i \in {j \in Ids : nd[j].kind = "ValueNode"}}
AllocRef(nd) == CHOOSE r \in Ids : r \notin RefsUsed(nd)
                                   /\ \A q \in Ids : q \notin RefsUsed(nd) => r <= q

\* a test that takes no node for the root
is_rootNever(nd, n) == FALSE

\* _Node.is_root
is_root(nd, n) == nd[n].parent = n

\* _Node.is_directory / _DirNode.is_directory
is_directory(nd, n) == nd[n].kind \in {"DictNode", "PartialNode"}

\* _DirNode.add_child
add_child(nd, p, c) == [nd EXCEPT ![p].children = Append(@, c)]

\* _DirNode.child / ValueNode.child: the first child of that name, or None
child(nd, p, name) ==
    IF nd[p].kind = "ValueNode" THEN None
    ELSE LET ch == nd[p].children
             hits == {i \in 1 .. Len(ch) : nd[ch[i]].name = name}
         IN  IF hits = {} THEN None
             ELSE ch[CHOOSE i \in hits : \A j \in hits : i <= j]

\* the loop of _Node.full_name; a parent chain that does not end at a root
\* makes the loop run forever, shown here by the part "<hang>"
RECURSIVE NameParts(_, _, _)
NameParts(nd, n, fuel) ==
    IF nd[n].parent = n THEN <<>>
    ELSE IF fuel = 0 THEN <<<<"<hang>">>>>
    ELSE <<nd[n].name>> \o NameParts(nd, nd[n].parent, fuel - 1)

full_name(nd, n) == <<Slash>> \o Join(Reversed(NameParts(nd, n, MaxNodes)), Slash)

-----------------------------------------------------------------------------
(* Tree._from_state_dict *)

\* the stack entries (value, name, parent) of the entries of a mapping
StackOf(m, parent) ==
    [i \in 1 .. Len(m) |-> [value |-> m[i].val, name |-> m[i].k, parent |-> parent]]

\* for chunk in chunks[:-1]: descend into, or create, the PartialNode
RECURSIVE BuildChunks(_, _, _)
BuildChunks(nd, parent, chunks) ==
    IF chunks = <<>> THEN [node |-> nd, parent |-> parent, err |-> "ok"]
    ELSE LET next == child(nd, parent, chunks[1])
         IN  IF next = None
             THEN IF ~HasFree(nd, 1)
                  THEN [node |-> nd, parent |-> parent, err |-> "bound"]
                  ELSE LET new == Alloc(nd)
                           nd1 == [nd EXCEPT ![new] =
                                      NewNode("PartialNode", chunks[1], parent, None)]
                       IN  BuildChunks(add_child(nd1, parent, new), new, Tail(chunks))
             ELSE IF nd[next].kind # "PartialNode"
                  THEN [node |-> nd, parent |-> parent, err |-> "AssertionError"]
                  ELSE BuildChunks(nd, next, Tail(chunks))

\* while len(stack) > 0: value, name, parent = stack.pop() ...
RECURSIVE BuildLoop(_, _, _)
BuildLoop(stack, nd, hp) ==
    IF stack = <<>> THEN [node |-> nd, heap |-> hp, err |-> "ok"]
    ELSE
    LET top  == Last(stack)
        rest == ButLast(stack)
    IN  IF top.value.t = "dict"
        THEN IF ~HasFree(nd, 1) THEN [node |-> nd, heap |-> hp, err |-> "bound"]
             ELSE LET new == Alloc(nd)
                      nd1 == [nd EXCEPT ![new] =
                                 NewNode("DictNode", top.name, top.parent, None)]
                  IN  BuildLoop(rest \o StackOf(top.value.m, new),
                                add_child(nd1, top.parent, new), hp)
        ELSE
        LET chunks == IF HasDot(top.name) THEN Split(top.name, Dot) ELSE <<top.name>>
            walk   == BuildChunks(nd, top.parent, ButLast(chunks))
        IN  IF walk.err # "ok" THEN [node |-> walk.node, heap |-> hp, err |-> walk.err]
            ELSE IF ~HasFree(walk.node, 1)
            THEN [node |-> walk.node, heap |-> hp, err |-> "bound"]
            ELSE LET new == Alloc(walk.node)
                     r   == AllocRef(walk.node)
                     nd1 == [walk.node EXCEPT ![new] =
                                NewNode("ValueNode", Last(chunks), walk.parent, r)]
                 IN  BuildLoop(rest, add_child(nd1, walk.parent, new),
                               [hp EXCEPT ![r] = top.value.v])

_from_state_dict(state_dict) ==
    LET nd0 == [EmptyArena EXCEPT ![Root] = NewNode("DictNode", <<>>, Root, None)]
    IN  BuildLoop(StackOf(state_dict, Root), nd0, EmptyHeap)

-----------------------------------------------------------------------------
(* Serializer: DictNode.state_dict, PartialNode.state_dict,                *)
(* ValueNode.state_dict                                                    *)

\* {f'{self.name}.{key}': value for key, value in ret.items()}
RECURSIVE Prefixed(_, _, _)
Prefixed(name, ret, acc) ==
    IF ret = <<>> THEN acc
    ELSE Prefixed(name, Tail(ret), Put(acc, name \o <<Dot>> \o ret[1].k, ret[1].val))

RECURSIVE state_dict(_, _, _)
RECURSIVE MergeChildren(_, _, _, _)

\* ret = dict(); for child in self.children: ret.update(child.state_dict())
MergeChildren(nd, hp, ch, ret) ==
    IF ch = <<>> THEN ret
    ELSE MergeChildren(nd, hp, Tail(ch), Update(ret, state_dict(nd, hp, ch[1])))

state_dict(nd, hp, n) ==
    IF nd[n].kind = "ValueNode" THEN <<Entry(nd[n].name, LeafV(hp[nd[n].ref]))>>
    ELSE LET ret == MergeChildren(nd, hp, nd[n].children, <<>>)
         IN  IF nd[n].kind = "PartialNode" THEN Prefixed(nd[n].name, ret, <<>>)
             ELSE IF nd[n].parent = n THEN ret
             ELSE <<Entry(nd[n].name, DictV(ret))>>

-----------------------------------------------------------------------------
(* Tree.insert, Tree.resolve, Tree.resolve_path *)

\* missing segments created as Groups
InsertedKindDict == "DictNode"

\* candidate = PartialNode(cur, elem)
InsertedKind == "PartialNode"

\* for elem in parts: ... of Tree.insert.  cur.add_child on a ValueNode
\* raises AttributeError (ValueNode has no add_child).
RECURSIVE InsertWalk(_, _, _)
InsertWalk(nd, cur, parts) ==
    IF parts = <<>> THEN [node |-> nd, cur |-> cur, err |-> "ok"]
    ELSE IF parts[1] = <<>> THEN InsertWalk(nd, cur, Tail(parts))
    ELSE LET candidate == child(nd, cur, parts[1])
         IN  IF candidate # None THEN InsertWalk(nd, candidate, Tail(parts))
             ELSE IF nd[cur].kind = "ValueNode"
             THEN [node |-> nd, cur |-> cur, err |-> "AttributeError"]
             ELSE IF ~HasFree(nd, 1)
             THEN [node |-> nd, cur |-> cur, err |-> "bound"]
             ELSE LET new == Alloc(nd)
                      nd1 == [nd EXCEPT ![new] =
                                 NewNode(InsertedKind, parts[1], cur, None)]
                  IN  InsertWalk(add_child(nd1, cur, new), new, Tail(parts))

insert(nd, path, n) ==
    LET walk == InsertWalk(nd, Root, Split(path, Slash))
    IN  IF walk.err # "ok" THEN walk
        ELSE IF nd[walk.cur].kind = "ValueNode"
        THEN [node |-> walk.node, cur |-> walk.cur, err |-> "AttributeError"]
        ELSE [node |-> add_child(walk.node, walk.cur, n), cur |-> walk.cur, err |-> "ok"]

\* for elem in parts: ... of Tree.resolve
RECURSIVE ResolveWalk(_, _, _)
ResolveWalk(nd, n, parts) ==
    IF parts = <<>> THEN n
    ELSE IF parts[1] = <<>> \/ parts[1] = <<Dot>> THEN ResolveWalk(nd, n, Tail(parts))
    ELSE IF parts[1] = <<Dot, Dot>> THEN ResolveWalk(nd, nd[n].parent, Tail(parts))
    ELSE LET next == child(nd, n, parts[1])
         IN  IF next = None THEN None ELSE ResolveWalk(nd, next, Tail(parts))

\* a resolve that does not look for the leading '/'
resolveRelative(nd, path, start) ==
    ResolveWalk(nd, IF start = None THEN Root ELSE start, Split(path, Slash))

resolve(nd, path, start) ==
    LET from == IF start = None THEN Root
                ELSE IF Len(path) > 0 /\ path[1] = Slash THEN Root
                ELSE start
    IN  ResolveWalk(nd, from, Split(path, Slash))

\* for elem in parts: ... of Tree.resolve_path
RECURSIVE Canonical(_, _)
Canonical(parts, canonical_parts) ==
    IF parts = <<>> THEN canonical_parts
    ELSE IF parts[1] = <<>> \/ parts[1] = <<Dot>> THEN Canonical(Tail(parts), canonical_parts)
    ELSE IF parts[1] = <<Dot, Dot>>
    THEN Canonical(Tail(parts), IF Len(canonical_parts) > 0 THEN ButLast(canonical_parts)
                                ELSE canonical_parts)
    ELSE Canonical(Tail(parts), Append(canonical_parts, parts[1]))

resolve_path(nd, path, start) ==
    LET parts == IF (Len(path) = 0 \/ path[1] # Slash) /\ start # None
                 THEN Tail(Split(full_name(nd, start), Slash)) \o Split(path, Slash)
                 ELSE Split(path, Slash)
    IN  <<Slash>> \o Join(Canonical(parts, <<>>), Slash)

-----------------------------------------------------------------------------
(* CheckpointShell._rm_node *)

InSeq(s, x) == \E i \in 1 .. Len(s) : s[i] = x

\* a remove that leaves the list as it is
RemoveKeep(s, x) == s

\* list.remove(x): drops the first occurrence
Remove(s, x) ==
    LET i == CHOOSE k \in 1 .. Len(s) : s[k] = x /\ \A j \in 1 .. (k - 1) : s[j] # x
    IN  SubSeq(s, 1, i - 1) \o SubSeq(s, i + 1, Len(s))

\* pruning that does not look at the kind of the group
PrunableAny(nd, n) == Len(nd[n].children) = 0 /\ ~is_root(nd, n)

\* no pruning at all
PrunableNever(nd, n) == FALSE

\* len(node.children) == 0 and isinstance(node, PartialNode) and not node.is_root
Prunable(nd, n) ==
    Len(nd[n].children) = 0 /\ nd[n].kind = "PartialNode" /\ ~is_root(nd, n)

\* while ...: node.parent.children.remove(node); node = node.parent
RECURSIVE PruneUp(_, _)
PruneUp(nd, n) ==
    IF Prunable(nd, n)
    THEN LET p == nd[n].parent
         IN  IF ~InSeq(nd[p].children, n) THEN [node |-> nd, err |-> "ValueError"]
             ELSE PruneUp([nd EXCEPT ![p].children = Remove(@, n)], p)
    ELSE [node |-> nd, err |-> "ok"]

\* a removal that detaches the node and prunes nothing
_rm_nodeDetach(nd, n) ==
    LET p == nd[n].parent
    IN  IF ~InSeq(nd[p].children, n) THEN [node |-> nd, err |-> "ValueError"]
        ELSE [node |-> [nd EXCEPT ![p].children = Remove(@, n)], err |-> "ok"]

_rm_node(nd, n) ==
    LET p == nd[n].parent
    IN  IF ~InSeq(nd[p].children, n) THEN [node |-> nd, err |-> "ValueError"]
        ELSE PruneUp([nd EXCEPT ![p].children = Remove(@, n)], p)

-----------------------------------------------------------------------------
(* _Node.clone (copy.deepcopy of the node with its parent link cut) *)

RECURSIVE PreOrder(_, _)
RECURSIVE PreOrderAll(_, _)
PreOrder(nd, n) == <<n>> \o PreOrderAll(nd, nd[n].children)
PreOrderAll(nd, ch) ==
    IF ch = <<>> THEN <<>> ELSE PreOrder(nd, ch[1]) \o PreOrderAll(nd, Tail(ch))

RECURSIVE Sorted(_)
Sorted(S) ==
    IF S = {} THEN <<>>
    ELSE LET m == CHOOSE x \in S : \A y \in S : x <= y
         IN  <<m>> \o Sorted(S \ {m})

IndexOf(s, x) == CHOOSE i \in 1 .. Len(s) : s[i] = x

\* the objects deepcopy makes: one new node per node of the subtree, one new
\* value per Leaf value
CloneMap(nd, n) ==
    LET old   == PreOrder(nd, n)
        fresh == Sorted({i \in Ids : IsFree(nd, i)})
        refs  == Sorted(Ids \ RefsUsed(nd))
    IN  [old |-> old, fresh |-> fresh, refs |-> refs]

CloneFits(nd, n) ==
    LET cm == CloneMap(nd, n)
    IN  Len(cm.old) <= Len(cm.fresh) /\ Len(cm.old) <= Len(cm.refs)

\* deepcopy of a Leaf value: new storage with the same content
CopyValue(hp, r, new) == [hp EXCEPT ![new] = hp[r]]

RECURSIVE CopyValues(_, _, _, _)
CopyValues(nd, hp, cm, i) ==
    IF i > Len(cm.old) THEN hp
    ELSE IF nd[cm.old[i]].kind = "ValueNode"
    THEN CopyValues(nd, CopyValue(hp, nd[cm.old[i]].ref, cm.refs[i]), cm, i + 1)
    ELSE CopyValues(nd, hp, cm, i + 1)

\* a shallow copy: the copy holds the original's value
CloneRefShared(nd, cm, i) == nd[cm.old[i]].ref

\* the reference the copy of node i holds
CloneRef(nd, cm, i) == cm.refs[i]

\* clone(clone_parent) without a name
NoName == <<"<none>">>

clone(nd, hp, n, clone_parent, name) ==
    LET cm  == CloneMap(nd, n)
        to(x) == cm.fresh[IndexOf(cm.old, x)]
        copy(i) ==
            LET o == nd[cm.old[i]]
            IN  [kind     |-> o.kind,
                 name     |-> IF i = 1 /\ name # NoName THEN name ELSE o.name,
                 parent   |-> IF i = 1 THEN clone_parent ELSE to(o.parent),
                 children |-> [j \in 1 .. Len(o.children) |-> to(o.children[j])],
                 ref      |-> IF o.kind = "ValueNode" THEN CloneRef(nd, cm, i) ELSE None]
    IN  [node  |-> [x \in Ids |->
                      IF \E i \in 1 .. Len(cm.old) : cm.fresh[i] = x
                      THEN copy(CHOOSE i \in 1 .. Len(cm.old) : cm.fresh[i] = x)
                      ELSE nd[x]],
         heap  |-> CopyValues(nd, hp, cm, 1),
         clone |-> cm.fresh[1]]

-----------------------------------------------------------------------------
(* Objects no longer referenced from the shell (self._tree.root, self._cwd) *)
(* are reclaimed by the Python runtime                                      *)

RECURSIVE Referenced(_, _)
Referenced(nd, S) ==
    LET T == S \cup {nd[x].parent : x \in S}
               \cup UNION {{nd[x].children[i] : i \in 1 .. Len(nd[x].children)} : x \in S}
    IN  IF T = S THEN S ELSE Referenced(nd, T)

Collect(nd, c) ==
    LET live == Referenced(nd, {Root, c})
    IN  [x \in Ids |-> IF x \in live THEN nd[x] ELSE FreeNode]

CollectHeap(nd, hp) == [r \in Ids |-> IF r \in RefsUsed(nd) THEN hp[r] ELSE 0]

-----------------------------------------------------------------------------
(* The mappings a checkpoint may hold *)

KeySet == { <<"a">>, <<"a", ".", "b">>, <<"a", ".", "b", ".", "c">> }
LeafValues == {1, 2}

\* all mappings of exactly n entries with distinct keys of K and values of V
RECURSIVE MapsOfLen(_, _, _)
MapsOfLen(K, V, n) ==
    IF n = 0 THEN { <<>> }
    ELSE UNION { { Append(m, Entry(k, v)) : k \in K \ KeysOf(m), v \in V }
                 : m \in MapsOfLen(K, V, n - 1) }

MapsUpTo(K, V, n) == UNION { MapsOfLen(K, V, i) : i \in 0 .. n }

InnerMaps == MapsUpTo(KeySet, {LeafV(1)}, MaxInner)
Values == {LeafV(v) : v \in LeafValues} \cup {DictV(m) : m \in InnerMaps}
Mappings == { m \in MapsUpTo(KeySet, Values, MaxLen) :
                 _from_state_dict(m).err # "bound" }

\* dict == dict: same keys, equal values, order ignored
RECURSIVE MapEq(_, _)
MapEq(m1, m2) ==
    /\ KeysOf(m1) = KeysOf(m2)
    /\ \A k \in KeysOf(m1) :
         LET a == Get(m1, k)
             b == Get(m2, k)
         IN  /\ a.t = b.t
             /\ a.t = "leaf" => a.v = b.v
             /\ a.t = "dict" => MapEq(a.m, b.m)

-----------------------------------------------------------------------------
(* The files *)

\* the checkpoint path the shell was started with
LoadPath == <<"p">>
\* another path that can be written
OtherPath == <<"q">>
\* a path in a directory that does not exist
MissingDirPath == <<"n", "/", "q">>
\* a path that must not be written
ReadOnlyPath == <<"r">>

FilePaths == {LoadPath, OtherPath}

NoFile == [exists |-> FALSE, m |-> <<>>]
File(m) == [exists |-> TRUE, m |-> m]

\* torch.load(checkpoint_path) found the mapping in the file
InitDisk(m) == [f \in FilePaths |-> IF f = LoadPath THEN File(m) ELSE NoFile]

\* what open(path, 'wb') of torch.save raises
SaveError(f) ==
    IF f = MissingDirPath THEN "FileNotFoundError"
    ELSE IF f = ReadOnlyPath THEN "PermissionError"
    ELSE "ok"

-----------------------------------------------------------------------------
(* Build and serialize as functions of the loaded mapping *)

NoCmd == [op |-> "none", src |-> None, dst |-> <<>>, res |-> "ok"]

InitBuild ==
    /\ inp \in Mappings
    /\ node = EmptyArena
    /\ heap = EmptyHeap
    /\ cwd = Root
    /\ prevwd = <<Slash>>
    /\ dirty = FALSE
    /\ out = NoCmd
    /\ pc = "loaded"
    /\ steps = 0
    /\ ser = <<>>
    /\ _path = LoadPath
    /\ disk = InitDisk(inp)

\* Tree(state_dict)
Build ==
    /\ pc = "loaded"
    /\ LET r == _from_state_dict(inp)
       IN  /\ node' = r.node
           /\ heap' = r.heap
           /\ pc' = IF r.err = "ok" THEN "built" ELSE "failed"
           /\ out' = [NoCmd EXCEPT !.op = "build", !.res = r.err]
    /\ UNCHANGED <<cwd, prevwd, dirty, steps, inp, ser, _path, disk>>

\* tree.root.state_dict()
Serialize ==
    /\ pc = "built"
    /\ ser' = state_dict(node, heap, Root)
    /\ pc' = "serialized"
    /\ out' = [NoCmd EXCEPT !.op = "serialize"]
    /\ UNCHANGED <<node, heap, cwd, prevwd, dirty, steps, inp, _path, disk>>

\* Tree(tree.root.state_dict())
Rebuild ==
    /\ pc = "serialized"
    /\ LET r == _from_state_dict(ser)
       IN  /\ node' = r.node
           /\ heap' = r.heap
           /\ pc' = IF r.err = "ok" THEN "rebuilt" ELSE "refailed"
           /\ out' = [NoCmd EXCEPT !.op = "rebuild", !.res = r.err]
    /\ UNCHANGED <<cwd, prevwd, dirty, steps, inp, ser, _path, disk>>

NextBuild == Build \/ Serialize \/ Rebuild

SpecBuild == InitBuild /\ [][NextBuild]_vars

-----------------------------------------------------------------------------
(* The shell commands, as functions of the tree *)

Crashes == {"ValueError", "AttributeError"}

Outcome(nd, hp, res, src, dst) ==
    [node |-> nd, heap |-> hp, res |-> res, src |-> src, dst |-> dst]

\* the test of do_mv / do_cp: (dest + '/').startswith(src_node.full_name + '/')
InSubtree(src_full, dest) == StartsWith(dest \o <<Slash>>, src_full \o <<Slash>>)

\* no destination is taken for the source's own path
SamePathNever(src_full, dest) == FALSE

\* the test of do_mv / do_cp: src_node.full_name == dest
SamePath(src_full, dest) == src_full = dest

\* the overwrite test left out
IsLeafDestNever(nd, dest_node) == FALSE

\* the test of do_mv / do_cp: not dest_node.is_directory
IsLeafDest(nd, dest_node) == ~is_directory(nd, dest_node)

\* CheckpointShell.do_mv
Mv(nd, hp, c, s, d) ==
    LET src_node  == resolve(nd, s, c)
        dest      == resolve_path(nd, d, c)
        dest_node == resolve(nd, dest, c)
    IN  IF src_node = None THEN Outcome(nd, hp, "NotFound", None, <<>>)
        ELSE IF SamePath(full_name(nd, src_node), dest)
        THEN Outcome(nd, hp, "NoOp", src_node, dest)
        ELSE IF InSubtree(full_name(nd, src_node), dest)
        THEN Outcome(nd, hp, "SelfSubtree", src_node, dest)
        ELSE IF dest_node # None
        THEN IF IsLeafDest(nd, dest_node)
             THEN Outcome(nd, hp, "Overwrite", src_node, dest)
             ELSE LET rm == _rm_node(nd, src_node)
                  IN  IF rm.err # "ok" THEN Outcome(rm.node, hp, rm.err, src_node, dest)
                      ELSE Outcome([add_child(rm.node, dest_node, src_node)
                                       EXCEPT ![src_node].parent = dest_node],
                                   hp, "ok", src_node, dest)
        ELSE LET dest_dir  == _dirname(dest)
                 dest_name == _basename(dest)
                 rm        == _rm_node(nd, src_node)
             IN  IF rm.err # "ok" THEN Outcome(rm.node, hp, rm.err, src_node, dest)
                 ELSE LET ins == insert(rm.node, dest_dir, src_node)
                      IN  IF ins.err # "ok"
                          THEN Outcome(ins.node, hp, ins.err, src_node, dest)
                          ELSE Outcome([ins.node EXCEPT ![src_node].name = dest_name,
                                                        ![src_node].parent = ins.cur],
                                       hp, "ok", src_node, dest)

\* CheckpointShell.do_cp
Cp(nd, hp, c, s, d) ==
    LET src_node  == resolve(nd, s, c)
        dest      == resolve_path(nd, d, c)
        dest_node == resolve(nd, dest, c)
    IN  IF src_node = None THEN Outcome(nd, hp, "NotFound", None, <<>>)
        ELSE IF SamePath(full_name(nd, src_node), dest)
        THEN Outcome(nd, hp, "NoOp", src_node, dest)
        ELSE IF InSubtree(full_name(nd, src_node), dest)
        THEN Outcome(nd, hp, "SelfSubtree", src_node, dest)
        ELSE IF dest_node # None
        THEN IF IsLeafDest(nd, dest_node)
             THEN Outcome(nd, hp, "Overwrite", src_node, dest)
             ELSE IF ~CloneFits(nd, src_node) THEN Outcome(nd, hp, "bound", src_node, dest)
             ELSE LET cl == clone(nd, hp, src_node, dest_node, NoName)
                  IN  Outcome(add_child(cl.node, dest_node, cl.clone), cl.heap,
                              "ok", src_node, dest)
        ELSE IF ~CloneFits(nd, src_node) THEN Outcome(nd, hp, "bound", src_node, dest)
        ELSE LET dest_dir  == _dirname(dest)
                 dest_name == _basename(dest)
                 cl        == clone(nd, hp, src_node, None, dest_name)
                 ins       == insert(cl.node, dest_dir, cl.clone)
             IN  IF ins.err = "bound" THEN Outcome(nd, hp, "bound", src_node, dest)
                 ELSE IF ins.err # "ok" THEN Outcome(nd, hp, ins.err, src_node, dest)
                 ELSE Outcome([ins.node EXCEPT ![cl.clone].parent = ins.cur],
                              cl.heap, "ok", src_node, dest)

\* CheckpointShell.do_rm
Rm(nd, hp, c, s) ==
    LET n == resolve(nd, s, c)
    IN  IF n = None THEN Outcome(nd, hp, "NotFound", None, <<>>)
        ELSE IF is_root(nd, n) THEN Outcome(nd, hp, "RootViolation", n, <<>>)
        ELSE LET rm == _rm_node(nd, n)
             IN  Outcome(rm.node, hp, rm.err, n, <<>>)

\* the names bound for the evaluated statement: eval_locals[node.name] = node.value
RECURSIVE EvalLocals(_, _, _)
EvalLocals(nd, ch, acc) ==
    IF ch = <<>> THEN acc
    ELSE IF is_directory(nd, ch[1]) THEN EvalLocals(nd, Tail(ch), acc)
    ELSE EvalLocals(nd, Tail(ch), Put(acc, nd[ch[1]].name, nd[ch[1]].ref))

\* for key, value in eval_locals.items(): ... child.value = value
RECURSIVE WriteBack(_, _, _, _, _)
WriteBack(nd, hp, c, locals, dty) ==
    IF locals = <<>> THEN [node |-> nd, dirty |-> dty, res |-> "ok"]
    ELSE LET ch == child(nd, c, locals[1].k)
             r  == locals[1].val
         IN  IF ch = None THEN [node |-> nd, dirty |-> dty, res |-> "NameError"]
             ELSE IF nd[ch].kind # "ValueNode"
             THEN [node |-> nd, dirty |-> dty, res |-> "CaughtAttributeError"]
             ELSE WriteBack([nd EXCEPT ![ch].ref = r], hp, c, Tail(locals),
                            dty \/ nd[ch].ref # r \/ hp[nd[ch].ref] # hp[r])

-----------------------------------------------------------------------------
(* The shell session *)

A == <<"a">>
B == <<"b">>
C == <<"c">>
D == <<"d">>
BdotC == <<"b", ".", "c">>
Up == <<Dot, Dot>>
Here == <<Dot>>

Abs(segs) == <<Slash>> \o Join(segs, Slash)
Rel(segs) == Join(segs, Slash)

\* the path arguments the commands are tried with
SrcArgs == { Abs(<<>>), Abs(<<A>>), Abs(<<A, B>>), Abs(<<A, B, C>>),
             Abs(<<C>>), Rel(<<Here>>) }

DstArgs == { Abs(<<>>), Abs(<<A>>), Abs(<<A, B, C>>), Abs(<<C>>),
             Abs(<<C, B>>), Abs(<<BdotC>>), Abs(<<A, B, Up, B>>), Rel(<<Here>>) }

RmArgs == SrcArgs \cup { Abs(<<A, B, D>>), Rel(<<Up>>), Rel(<<A, Up>>) }

\* the values a statement may store
NewValues == {3}

CdArgs == { Abs(<<>>), Abs(<<A>>), Abs(<<A, B>>), Abs(<<C>>), Rel(<<Up>>), Rel(<<B>>), <<"-">> }

L(v) == LeafV(v)

InitMaps ==
    { << Entry(<<"a", ".", "b", ".", "c">>, L(1)), Entry(<<"a", ".", "b", ".", "d">>, L(2)) >>,
      << Entry(A, DictV(<< Entry(B, L(1)) >>)), Entry(C, L(2)) >>,
      << Entry(A, L(1)), Entry(<<"a", ".", "b">>, L(2)) >>,
      << Entry(BdotC, L(1)), Entry(A, L(2)) >> }

\* CheckpointShell.__init__
Init ==
    /\ inp \in InitMaps
    /\ LET r == _from_state_dict(inp)
       IN  /\ r.err = "ok"
           /\ node = r.node
           /\ heap = r.heap
    /\ cwd = Root
    /\ prevwd = <<Slash>>
    /\ dirty = FALSE
    /\ out = NoCmd
    /\ pc = "run"
    /\ steps = 0
    /\ ser = <<>>
    /\ _path = LoadPath
    /\ disk = InitDisk(inp)

Running == pc = "run" /\ steps < MaxSteps

\* a successful command that leaves the flag as it was
DirtyAfterKeep(dty, res) == dty

\* self._dirty = True, at the end of do_mv / do_cp / do_rm
DirtyAfter(dty, res) == dty \/ res = "ok"

\* what every command leaves behind
Finish(op, r, dty) ==
    /\ r.res # "bound"
    /\ IF r.node = node /\ r.heap = heap
       THEN UNCHANGED <<node, heap>>
       ELSE /\ node' = Collect(r.node, cwd)
            /\ heap' = CollectHeap(Collect(r.node, cwd), r.heap)
    /\ dirty' = dty
    /\ out' = [op |-> op, src |-> r.src, dst |-> r.dst, res |-> r.res]
    /\ pc' = IF r.res \in Crashes THEN "crashed" ELSE "run"
    /\ steps' = steps + 1
    /\ UNCHANGED <<cwd, prevwd, inp, ser, _path, disk>>

do_mv ==
    /\ Running
    /\ \E s \in SrcArgs, d \in DstArgs :
         LET r == Mv(node, heap, cwd, s, d)
         IN  Finish("mv", r, DirtyAfter(dirty, r.res))

do_cp ==
    /\ Running
    /\ \E s \in SrcArgs, d \in DstArgs :
         LET r == Cp(node, heap, cwd, s, d)
         IN  Finish("cp", r, DirtyAfter(dirty, r.res))

do_rm ==
    /\ Running
    /\ \E s \in RmArgs :
         LET r == Rm(node, heap, cwd, s)
         IN  Finish("rm", r, DirtyAfter(dirty, r.res))

do_cd ==
    /\ Running
    /\ \E a \in CdArgs :
         LET arg == IF a = <<"-">> THEN prevwd ELSE a
             n   == resolve(node, arg, cwd)
             res == IF n = None THEN "NotFound"
                    ELSE IF ~is_directory(node, n) THEN "NotADirectory"
                    ELSE "ok"
         IN  /\ IF res = "ok" /\ cwd # n
                THEN /\ prevwd' = full_name(node, cwd)
                     /\ cwd' = n
                ELSE UNCHANGED <<cwd, prevwd>>
             /\ node' = Collect(node, IF res = "ok" THEN n ELSE cwd)
             /\ heap' = CollectHeap(Collect(node, IF res = "ok" THEN n ELSE cwd), heap)
             /\ out' = [op |-> "cd", src |-> n, dst |-> <<>>, res |-> res]
             /\ steps' = steps + 1
             /\ UNCHANGED <<dirty, pc, inp, ser, _path, disk>>

\* CheckpointShell.default: a statement that changes the value bound to the
\* name k, in place ("k[0] = v") or by assignment ("k = v")
default ==
    /\ Running
    /\ LET locals == EvalLocals(node, node[cwd].children, <<>>)
       IN  \E k \in {x \in KeysOf(locals) : x # <<>> /\ ~HasDot(x)}, v \in NewValues,
              inplace \in BOOLEAN :
             LET r    == IF inplace THEN Get(locals, k) ELSE AllocRef(node)
                 hp   == [heap EXCEPT ![r] = v]
                 wb   == WriteBack(node, hp, cwd, Put(locals, k, r), dirty)
             IN  /\ node' = wb.node
                 /\ heap' = CollectHeap(wb.node, hp)
                 /\ dirty' = wb.dirty
                 /\ out' = [op |-> "default", src |-> child(node, cwd, k),
                            dst |-> <<>>, res |-> wb.res]
                 /\ steps' = steps + 1
                 /\ UNCHANGED <<cwd, prevwd, pc, inp, ser, _path, disk>>

Next == do_mv \/ do_cp \/ do_rm \/ do_cd \/ default

Spec == Init /\ [][Next]_vars

-----------------------------------------------------------------------------
(* Sessions of mv, cp, rm, save and exit *)

\* the arguments save is tried with; the empty one stands for self._path
SaveArgs == { <<>>, OtherPath, MissingDirPath, ReadOnlyPath }

\* what the user answers to "Discard (y/N)?"
Answers == { "y", "yes", "n" }

\* CheckpointShell.do_save
do_save ==
    /\ Running
    /\ \E arg \in SaveArgs :
         LET target == IF arg = <<>> THEN _path ELSE arg
             err    == SaveError(target)
         IN  /\ IF err = "ok"
                THEN /\ disk' = [disk EXCEPT ![target] = File(state_dict(node, heap, Root))]
                     /\ _path' = target
                     /\ dirty' = FALSE
                ELSE UNCHANGED <<disk, _path, dirty>>
             /\ out' = [op |-> "save", src |-> None, dst |-> target, res |-> err]
    /\ steps' = steps + 1
    /\ UNCHANGED <<node, heap, cwd, prevwd, pc, inp, ser>>

\* CheckpointShell.do_EOF / do_exit; the command that ends the session is
\* not counted in steps
do_EOF ==
    /\ pc = "run"
    /\ \E line \in Answers :
         LET res == IF ~dirty THEN "Ended"
                    ELSE IF line # "y" /\ line # "yes" THEN "Kept"
                    ELSE "Discarded"
         IN  /\ out' = [op |-> "exit", src |-> None, dst |-> <<>>, res |-> res]
             /\ pc' = IF res = "Kept" THEN "run" ELSE "exited"
    /\ UNCHANGED <<node, heap, cwd, prevwd, dirty, steps, inp, ser, _path, disk>>

NextSession == do_mv \/ do_cp \/ do_rm \/ do_save \/ do_EOF

SpecSession == Init /\ [][NextSession]_vars

-----------------------------------------------------------------------------
(* Construction of the shell: load_checkpoint_path, then the rest of        *)
(* CheckpointShell.__init__, then a session                                 *)

\* torch.cuda.is_available()
CudaAvailable == BOOLEAN
\* the device the tensors of the checkpoint file were saved from
SavedOn == { "cpu", "cuda" }

\* the mappings the checkpoint file can hold; the tree of the last one
\* cannot be built (AssertionError)
LoadMaps ==
    InitMaps \cup { << Entry(<<"a", ".", "b">>, L(1)), Entry(A, DictV(<<>>)) >> }

\* the state when __init__ has set self._path and nothing else; the tree
\* does not exist yet and _dirty has not been assigned
InitLoad ==
    /\ \E m \in LoadMaps : disk = InitDisk(m)
    /\ inp = <<>>
    /\ node = EmptyArena
    /\ heap = EmptyHeap
    /\ cwd = Root
    /\ prevwd = <<Slash>>
    /\ dirty = FALSE
    /\ out = NoCmd
    /\ pc = "new"
    /\ steps = 0
    /\ ser = <<>>
    /\ _path = LoadPath

\* CheckpointShell.load_checkpoint_path: res tells how the file was loaded,
\* "cuda" (cuda is available), "cpu" (cpu-only, the user confirmed, tensors
\* mapped to cpu), "default" (cpu-only, not confirmed, tensors were on cpu)
\* or "RuntimeError" (cpu-only, not confirmed, tensors were on cuda)
load_checkpoint_path ==
    /\ pc = "new"
    /\ \E cuda \in CudaAvailable, line \in Answers, dev \in SavedOn :
         LET res == IF cuda THEN "cuda"
                    ELSE IF line # "y" /\ line # "yes"
                         THEN (IF dev = "cuda" THEN "RuntimeError" ELSE "default")
                    ELSE "cpu"
         IN  /\ dirty' = IF res = "cpu" THEN TRUE ELSE dirty
             /\ inp' = IF res = "RuntimeError" THEN inp ELSE disk[_path].m
             /\ pc' = IF res = "RuntimeError" THEN "crashed" ELSE "loading"
             /\ out' = [op |-> "load", src |-> None, dst |-> _path, res |-> res]
    /\ UNCHANGED <<node, heap, cwd, prevwd, steps, ser, _path, disk>>

\* CheckpointShell.__init__ after load_checkpoint_path has returned; out
\* keeps how the file was loaded
__init__ ==
    /\ pc = "loading"
    /\ LET r == _from_state_dict(inp)
       IN  /\ node' = r.node
           /\ heap' = r.heap
           /\ IF r.err = "ok"
              THEN /\ cwd' = Root
                   /\ prevwd' = <<Slash>>
                   /\ dirty' = FALSE
                   /\ pc' = "run"
                   /\ out' = [out EXCEPT !.op = "init"]
              ELSE /\ pc' = "crashed"
                   /\ out' = [out EXCEPT !.op = "init", !.res = r.err]
                   /\ UNCHANGED <<cwd, prevwd, dirty>>
    /\ UNCHANGED <<steps, inp, ser, _path, disk>>

NextLoad == load_checkpoint_path \/ __init__ \/ do_rm \/ do_save \/ do_EOF

SpecLoad == InitLoad /\ [][NextLoad]_vars

-----------------------------------------------------------------------------
(* Tree.resolve, Tree.resolve_path and Tree.insert as functions of the     *)
(* tree, the start node and the path                                       *)

X == <<"x">>
Y == <<"y">>
Z == <<"z">>
W == <<"w">>
XdotYdotW == <<"x", ".", "y", ".", "w">>
YdotW == <<"y", ".", "w">>
AdotdotB == <<"a", ".", ".", "b">>

\* the mappings the trees are built from
TreeMaps ==
    { <<>>,
      << Entry(X, DictV(<< Entry(Y, DictV(<<>>)) >>)) >>,
      << Entry(XdotYdotW, L(1)) >>,
      << Entry(X, DictV(<< Entry(YdotW, L(1)) >>)) >>,
      << Entry(A, DictV(<< Entry(B, L(1)) >>)), Entry(C, L(2)) >>,
      << Entry(A, L(1)), Entry(<<"a", ".", "b">>, L(2)) >>,
      << Entry(BdotC, DictV(<< Entry(X, L(1)) >>)) >>,
      << Entry(AdotdotB, L(1)) >> }

\* the paths resolve and resolve_path are called with
Paths ==
    { <<>>, Abs(<<>>), Rel(<<Here>>), Rel(<<Up>>), Rel(<<Up, Up>>), Abs(<<Up>>),
      Rel(<<A>>), Rel(<<B>>), Rel(<<X>>), Rel(<<A, B>>), Abs(<<A, B>>), Abs(<<A>>),
      Rel(<<A, Up>>), Abs(<<A, Up, A, B>>), Rel(<<A, <<>>, B>>), Rel(<<Here, A>>),
      Abs(<<C, B>>), Rel(<<C, Up>>), Abs(<<X, Y>>), Rel(<<Y, W>>), Abs(<<X, Y, W>>),
      Abs(<<BdotC, X>>), Rel(<<X, Up, Up>>), Rel(<<A, <<>>>>), Abs(<<A, B, Here>>) }

\* the group paths insert is called with
GroupPaths == { Abs(<<X, Y>>), Abs(<<X>>), Abs(<<>>), Abs(<<A, Y>>), Abs(<<C, B>>),
                Rel(<<X, Y>>), Abs(<<X, <<>>, Y>>) }

\* the value of the inserted Leaf
InsertedValue == 5

InitTree ==
    /\ inp \in TreeMaps
    /\ LET r == _from_state_dict(inp)
       IN  /\ r.err = "ok"
           /\ node = r.node
           /\ heap = r.heap
           /\ cwd \in {x \in Ids : r.node[x].kind # "Free"}
    /\ prevwd = <<Slash>>
    /\ dirty = FALSE
    /\ out = NoCmd
    /\ pc = "tree"
    /\ steps = 0
    /\ ser = <<>>
    /\ _path = LoadPath
    /\ disk = InitDisk(inp)

\* node = tree.resolve(path, start)
Resolve ==
    /\ pc = "tree"
    /\ \E path \in Paths :
         out' = [op |-> "resolve", src |-> resolve(node, path, cwd), dst |-> path,
                 res |-> "ok"]
    /\ pc' = "resolved"
    /\ UNCHANGED <<node, heap, cwd, prevwd, dirty, steps, inp, ser, _path, disk>>

\* leaf = ValueNode(None, 'z', 5); leaf.parent = tree.insert(path, leaf)
Insert ==
    /\ pc = "tree"
    /\ cwd = Root
    /\ HasFree(node, 1)
    /\ \E path \in GroupPaths :
         LET leaf == Alloc(node)
             r    == AllocRef(node)
             nd1  == [node EXCEPT ![leaf] = NewNode("ValueNode", Z, leaf, r)]
             ins  == insert(nd1, path, leaf)
         IN  /\ ins.err # "bound"
             /\ node' = IF ins.err = "ok"
                        THEN [ins.node EXCEPT ![leaf].parent = ins.cur]
                        ELSE Collect(ins.node, cwd)
             /\ heap' = IF ins.err = "ok" THEN [heap EXCEPT ![r] = InsertedValue]
                        ELSE heap
             /\ out' = [op |-> "insert", src |-> leaf, dst |-> path, res |-> ins.err]
             /\ pc' = IF ins.err = "ok" THEN "inserted" ELSE "crashed"
    /\ UNCHANGED <<cwd, prevwd, dirty, steps, inp, ser, _path, disk>>

\* tree.root.state_dict() after the insert
SerializeTree ==
    /\ pc = "inserted"
    /\ ser' = state_dict(node, heap, Root)
    /\ pc' = "serialized"
    /\ UNCHANGED <<node, heap, cwd, prevwd, dirty, out, steps, inp, _path, disk>>

NextTree == Resolve \/ Insert \/ SerializeTree

SpecTree == InitTree /\ [][NextTree]_vars

-----------------------------------------------------------------------------
(* C1: round trip.  For every mapping M on which build does not fail,      *)
(* serialize(build(M)) equals M as a mapping (order ignored), and          *)
(* consequently build(serialize(T)) does not fail and serializes to        *)
(* serialize(T) for every built tree T.                                    *)
C1_RoundTrip ==
    /\ pc = "serialized" => MapEq(ser, inp)
    /\ pc # "refailed"
    /\ pc = "rebuilt" => MapEq(state_dict(node, heap, Root), ser)

\* the first half alone: serialize is a left inverse of build
C1_LeftInverse == pc \in {"serialized", "rebuilt", "refailed"} => MapEq(ser, inp)

-----------------------------------------------------------------------------
(* Notions the properties are stated with *)

Elems(s) == {s[i] : i \in 1 .. Len(s)}

\* the nodes below the nodes of S (S included), following children lists
RECURSIVE Down(_, _)
Down(nd, S) ==
    LET T == S \cup UNION {Elems(nd[x].children) : x \in S}
    IN  IF T = S THEN S ELSE Down(nd, T)

Reachable(nd) == Down(nd, {Root})
Subtree(nd, n) == Down(nd, {n})
LeavesOf(nd) == {x \in Reachable(nd) : nd[x].kind = "ValueNode"}
Live(nd) == {x \in Ids : nd[x].kind # "Free"}

NonEmpty(x) == x # <<>>
Segs(path) == SelectSeq(Split(path, Slash), NonEmpty)
IsPrefix(a, b) == Len(a) <= Len(b) /\ SubSeq(b, 1, Len(a)) = a
StrictlyBelow(path, top) == IsPrefix(Segs(top), Segs(path)) /\ Len(Segs(top)) < Len(Segs(path))

\* path + '/' + name
Under(path, name) == Abs(Append(Segs(path), name))

Moved == out'.op = "mv" /\ out'.res = "ok"
Copied == out'.op = "cp" /\ out'.res = "ok"
Removed == out'.op = "rm" /\ out'.res = "ok"
MvOrCp == out'.op \in {"mv", "cp"}
TreeUnchanged == node' = node /\ heap' = heap
Reported == {"NotFound", "SelfSubtree", "Overwrite", "RootViolation", "NotADirectory"}

-----------------------------------------------------------------------------
(* C2: after a successful mv of a node of the tree the node is still       *)
(* reachable from root, at dest/<own name> when dest resolved to an        *)
(* existing group and at dest otherwise, its subtree is intact and the set *)
(* of leaves reachable from root is the same as before.                    *)
C2_MoveKeepsNode ==
    [][ (Moved /\ out'.src \in Reachable(node)) =>
          LET s     == out'.src
              dnode == resolve(node, out'.dst, Root)
          IN  /\ s \in Reachable(node')
              /\ full_name(node', s) =
                    IF dnode # None THEN Under(out'.dst, node[s].name) ELSE out'.dst
              /\ \A x \in Subtree(node, s) \ {s} : node'[x] = node[x]
              /\ node'[s].children = node[s].children
              /\ LeavesOf(node') = LeavesOf(node) ]_vars

(* C3: sibling names are unique in every state reached from a built tree   *)
(* (whose sibling names are unique) by insert, mv, cp and rm.              *)
UniqueSiblings(nd) ==
    \A g \in Reachable(nd) :
        \A i, j \in 1 .. Len(nd[g].children) :
            nd[nd[g].children[i]].name = nd[nd[g].children[j]].name => i = j

C3_UniqueSiblings ==
    UniqueSiblings(_from_state_dict(inp).node) => UniqueSiblings(node)

(* C4: a mv or cp (of a non-root node of the tree) whose destination does  *)
(* not resolve and whose destination path passes through an existing Leaf  *)
(* fails as a reported error and leaves the tree as it was.                *)
PassesThroughLeaf(nd, dest) ==
    \E k \in 1 .. (Len(Segs(dest)) - 1) :
        LET n == resolve(nd, Abs(SubSeq(Segs(dest), 1, k)), Root)
        IN  n # None /\ nd[n].kind = "ValueNode"

C4_NoPartialMutation ==
    [][ (MvOrCp /\ out'.src \in Reachable(node) \ {Root}
                /\ resolve(node, out'.dst, Root) = None
                /\ PassesThroughLeaf(node, out'.dst)) =>
          (out'.res \in Reported /\ pc' = "run" /\ TreeUnchanged) ]_vars

(* C5: for every source node (root included) and every destination whose   *)
(* canonical path is strictly below the source's full path, mv and cp fail *)
(* with the self-subtree violation; tree and dirty flag are unchanged.     *)
C5_SelfSubtreeGuard ==
    [][ (MvOrCp /\ out'.src # None
                /\ StrictlyBelow(out'.dst, full_name(node, out'.src))) =>
          (out'.res = "SelfSubtree" /\ TreeUnchanged /\ dirty' = dirty) ]_vars

(* C6: the root is its own parent; every other node reachable from root   *)
(* is held exactly once, by exactly one children list, and its parent      *)
(* reference is that group; parent references lead from every reachable    *)
(* node to the root.                                                       *)
Holders(nd, n) ==
    {<<g, i>> \in Ids \X (1 .. MaxNodes) :
        nd[g].kind # "Free" /\ i <= Len(nd[g].children) /\ nd[g].children[i] = n}

RECURSIVE ReachesRoot(_, _, _)
ReachesRoot(nd, n, fuel) ==
    IF n = Root THEN TRUE
    ELSE IF fuel = 0 \/ n = None THEN FALSE
    ELSE ReachesRoot(nd, nd[n].parent, fuel - 1)

C6_WellFormed ==
    /\ node[Root].parent = Root
    /\ \A n \in Reachable(node) \ {Root} :
         /\ Holders(node, n) # {}
         /\ \A h \in Holders(node, n) : Holders(node, n) = {h} /\ node[n].parent = h[1]
         /\ ReachesRoot(node, n, MaxNodes)

C6_Witness ==
    /\ pc = "run"
    /\ out.op = "cp" /\ out.res = "ok"
    /\ steps = MaxSteps
    /\ node # _from_state_dict(inp).node
    /\ \E n \in Reachable(node) : node[n].parent \notin {Root, n}

(* C7: when the destination of mv or cp resolves to an existing Leaf and   *)
(* its path is neither the source's full path nor below it, the command    *)
(* fails with the overwrite violation; tree and dirty flag are unchanged.  *)
C7_OverwriteGuard ==
    [][ (MvOrCp /\ out'.src # None) =>
          LET dnode == resolve(node, out'.dst, Root)
              full  == Segs(full_name(node, out'.src))
          IN  (dnode # None /\ node[dnode].kind = "ValueNode"
                 /\ ~IsPrefix(full, Segs(out'.dst))) =>
                (out'.res = "Overwrite" /\ TreeUnchanged /\ dirty' = dirty
                    /\ pc' = "run") ]_vars

C7_Witness ==
    /\ out.op \in {"mv", "cp"} /\ out.res = "Overwrite"
    /\ out.src # None /\ out.src # Root
    /\ node[resolve(node, out.dst, Root)].kind = "ValueNode"

(* C8: rm of a non-root node of the tree detaches that node and removes,   *)
(* walking up from its parent, every ancestor that is a now-childless      *)
(* JoinedGroup, stopping at the first ancestor that is non-empty, is a     *)
(* Group or is root; nothing else is removed.  From {"a.b.c":1,"a.b.d":2}, *)
(* rm /a/b/c keeps /a/b and /a/b/d, and rm /a/b/d then leaves root empty.  *)
RECURSIVE AncestorsOf(_, _, _)
AncestorsOf(nd, n, fuel) ==
    IF nd[n].parent = n \/ fuel = 0 THEN <<>>
    ELSE <<nd[n].parent>> \o AncestorsOf(nd, nd[n].parent, fuel - 1)

\* the ancestors rm must prune: the unbroken run, from the parent upward, of
\* non-root JoinedGroups whose only child is the node below
PrunedBy(nd, n) ==
    LET anc == AncestorsOf(nd, n, MaxNodes)
        ok(i) == /\ nd[anc[i]].kind = "PartialNode"
                 /\ nd[anc[i]].parent # anc[i]
                 /\ Len(nd[anc[i]].children) = 1
    IN  {anc[i] : i \in {k \in 1 .. Len(anc) : \A j \in 1 .. k : ok(j)}}

Without(s, G) == SelectSeq(s, LAMBDA x : x \notin G)

ExampleMap ==
    << Entry(<<"a", ".", "b", ".", "c">>, L(1)), Entry(<<"a", ".", "b", ".", "d">>, L(2)) >>

C8_DeletePruning ==
    [][ (Removed /\ out'.src \in Reachable(node)) =>
          LET n    == out'.src
              gone == Subtree(node, n) \cup PrunedBy(node, n)
          IN  /\ Reachable(node') = Reachable(node) \ gone
              /\ \A x \in Reachable(node') :
                    node'[x] = [node[x] EXCEPT !.children = Without(@, gone)]
              /\ \A x \in LeavesOf(node') : heap'[node'[x].ref] = heap[node[x].ref]
              /\ (inp = ExampleMap /\ steps = 0 /\ full_name(node, n) = Abs(<<A, B, C>>)) =>
                    /\ resolve(node', Abs(<<A, B>>), Root) # None
                    /\ resolve(node', Abs(<<A, B, D>>), Root) # None
              /\ (inp = ExampleMap /\ steps = 1 /\ out.op = "rm" /\ out.res = "ok"
                    /\ resolve(node, Abs(<<A, B, C>>), Root) = None
                    /\ full_name(node, n) = Abs(<<A, B, D>>)) =>
                    node'[Root].children = <<>> ]_vars

C8_Witness ==
    /\ inp = ExampleMap
    /\ out.op = "rm" /\ out.res = "ok"
    /\ steps = 2
    /\ node[Root].children = <<>>

(* C9 as stated: after any rm, no non-root Group or JoinedGroup that was   *)
(* left childless by that deletion remains reachable from root.            *)
LeftChildless(nd, nd2, kinds) ==
    {g \in Reachable(nd2) \ {Root} :
        /\ nd2[g].kind \in kinds
        /\ nd2[g].children = <<>>
        /\ nd[g].children # <<>>}

C9_EagerPruningAll ==
    [][ Removed => LeftChildless(node, node', {"DictNode", "PartialNode"}) = {} ]_vars

(* C9 as amended: after any rm, no non-root JoinedGroup that was left      *)
(* childless by that deletion remains reachable from root; a Group that    *)
(* the deletion left childless is kept, so only the root and Groups may be *)
(* left empty.                                                             *)
C9_EagerPruningJoined ==
    [][ Removed =>
          /\ LeftChildless(node, node', {"PartialNode"}) = {}
          /\ \A g \in Reachable(node) \ {Root} :
                (node[g].kind = "DictNode" /\ node[g].children = <<out'.src>>)
                    => (g \in Reachable(node') /\ node'[g].children = <<>>) ]_vars

C9_Witness ==
    /\ out.op = "rm" /\ out.res = "ok"
    /\ \E g \in Reachable(node) \ {Root} :
          node[g].kind = "DictNode" /\ node[g].children = <<>>

(* C10: a successful cp leaves every node that existed before as it was    *)
(* (same kind, name, parent reference and value; the same children, to     *)
(* which only the new node may have been appended, nothing pruned); the    *)
(* attached copy is a structurally equal subtree of new nodes with value   *)
(* storage of its own; and a later change of a Leaf value made through one *)
(* name of the working directory changes the value of no other Leaf.       *)
ValueOf(nd, hp, x) == IF nd[x].kind = "ValueNode" THEN hp[nd[x].ref] ELSE 0

RECURSIVE SameShape(_, _, _, _, _, _)
SameShape(nd, hp, x, nd2, hp2, y) ==
    /\ nd[x].kind = nd2[y].kind
    /\ ValueOf(nd, hp, x) = ValueOf(nd2, hp2, y)
    /\ Len(nd[x].children) = Len(nd2[y].children)
    /\ \A i \in 1 .. Len(nd[x].children) :
          /\ nd[nd[x].children[i]].name = nd2[nd2[y].children[i]].name
          /\ nd2[nd2[y].children[i]].parent = y
          /\ SameShape(nd, hp, nd[x].children[i], nd2, hp2, nd2[y].children[i])

-----------------------------------------------------------------------------
(* C11: rm with a path that resolves to the root (/, . or .. at root, a/..  *)
(* and so on) fails with the root violation and leaves the tree, the       *)
(* current working node and the dirty flag unchanged.                      *)
C11_RootDeletionRefused ==
    [][ (out'.op = "rm" /\ out'.src = Root) =>
          /\ out'.res = "RootViolation"
          /\ TreeUnchanged
          /\ cwd' = cwd /\ prevwd' = prevwd
          /\ dirty' = dirty
          /\ pc' = "run" ]_vars

\* the root was named from a working directory below it, after a change
C11_Witness ==
    /\ out.op = "rm" /\ out.res = "RootViolation" /\ out.src = Root
    /\ cwd # Root
    /\ steps = MaxSteps

-----------------------------------------------------------------------------
(* C12: resolve returns a node or none for every tree, start node and      *)
(* path.  It starts at root when the path begins with '/', else at the     *)
(* start node; '.' and empty segments are no-ops; '..' moves to the parent *)
(* and is a no-op at root (resolve("..", root) = root and                  *)
(* resolve("..", resolve("child", root)) = root); any other segment is an  *)
(* exact child-name lookup, and the result is none exactly when some       *)
(* lookup fails, a lookup below a Leaf included.                           *)
Origin(path, start) == IF Len(path) > 0 /\ path[1] = Slash THEN Root ELSE start

\* one segment of the walk; none stays none
Step(nd, n, seg) ==
    IF n = None THEN None
    ELSE IF seg \in {<<>>, <<Dot>>} THEN n
    ELSE IF seg = <<Dot, Dot>> THEN (IF n = Root THEN Root ELSE nd[n].parent)
    ELSE IF nd[n].kind = "ValueNode" THEN None
    ELSE LET named == {i \in 1 .. Len(nd[n].children) :
                          nd[nd[n].children[i]].name = seg}
         IN  IF named = {} THEN None
             ELSE nd[n].children[CHOOSE i \in named : \A j \in named : i <= j]

EndOfWalk(nd, path, start) ==
    LET segs == Split(path, Slash)
        at[i \in 0 .. Len(segs)] ==
            IF i = 0 THEN Origin(path, start) ELSE Step(nd, at[i - 1], segs[i])
    IN  at[Len(segs)]

C12_Resolve ==
    out.op = "resolve" =>
        /\ out.src \in Live(node) \cup {None}
        /\ out.src = EndOfWalk(node, out.dst, cwd)
        /\ (out.dst = Rel(<<Up>>) /\ cwd = Root) => out.src = Root
        /\ (out.dst = Rel(<<Up>>) /\ cwd # Root
              /\ cwd = resolve(node, node[cwd].name, Root)) => out.src = Root

\* an absolute path with '..' in it, resolved from below the root
C12_Witness ==
    /\ out.op = "resolve" /\ out.dst = Abs(<<A, Up, A, B>>)
    /\ cwd # Root
    /\ out.src # None /\ node[out.src].kind = "ValueNode"

-----------------------------------------------------------------------------
(* C13: a mv whose canonical destination path equals the full path of the  *)
(* source node (mv /a/b /a/b, or the same through '.' and '..') returns    *)
(* silently: the tree is identical, child order and node names included,   *)
(* and the dirty flag is not set.                                          *)
C13_MoveNoOp ==
    [][ (out'.op = "mv" /\ out'.src # None
            /\ full_name(node, out'.src) = out'.dst) =>
          /\ out'.res = "NoOp"
          /\ TreeUnchanged
          /\ dirty' = dirty
          /\ cwd' = cwd /\ prevwd' = prevwd
          /\ pc' = "run" ]_vars

\* /a/b moved onto itself in a session that changed nothing before
C13_Witness ==
    /\ out.op = "mv" /\ out.res = "NoOp"
    /\ out.src \in Reachable(node) \ {Root}
    /\ out.dst = Abs(<<A, B>>)
    /\ ~dirty
    /\ node = _from_state_dict(inp).node

-----------------------------------------------------------------------------
(* C14: for every mapping in which a non-final segment of a dotted key     *)
(* names the same position as a Leaf (such as key "a" with a non-mapping   *)
(* value together with key "a.b"), build fails with the malformed-input    *)
(* error whatever the order of the keys, and never yields a tree with two  *)
(* siblings of the same name.                                              *)
Chunks(k) == IF HasDot(k) THEN Split(k, Dot) ELSE <<k>>

\* a Leaf key whose position is a proper prefix of the position of another
\* Leaf key, in this mapping or in a nested one
RECURSIVE Ambiguous(_)
Ambiguous(m) ==
    \/ \E i, j \in 1 .. Len(m) :
          /\ m[i].val.t = "leaf" /\ m[j].val.t = "leaf"
          /\ Len(Chunks(m[i].k)) < Len(Chunks(m[j].k))
          /\ IsPrefix(Chunks(m[i].k), Chunks(m[j].k))
    \/ \E i \in 1 .. Len(m) : m[i].val.t = "dict" /\ Ambiguous(m[i].val.m)

C14_BuildRejectsAmbiguous ==
    (Ambiguous(inp) /\ pc # "loaded") =>
        /\ pc = "failed"
        /\ out.res = "AssertionError"
        /\ UniqueSiblings(node)

-----------------------------------------------------------------------------
(* C15: after a successful mv, every JoinedGroup ancestor of the old       *)
(* location that the move left childless has been removed (up to the first *)
(* non-empty ancestor, Group ancestor or root); and in every state reached *)
(* by mv, cp and rm alone (no change of the working directory) no empty    *)
(* non-root JoinedGroup is reachable from root.                            *)
EmptyJoined(nd) ==
    {g \in Reachable(nd) \ {Root} : nd[g].kind = "PartialNode" /\ nd[g].children = <<>>}

JoinedGroups(nd) == {g \in Reachable(nd) : nd[g].kind = "PartialNode"}

\* the working directory was never changed
NeverChangedDir(c, p) == c = Root /\ p = <<Slash>>

C15_MovePruning ==
    [][ /\ (Moved /\ out'.src \in Reachable(node)) =>
              /\ PrunedBy(node, out'.src) \cap Reachable(node') = {}
              /\ \A g \in Reachable(node') :
                    (g \in Reachable(node) /\ node'[g].children = <<>>
                        /\ node[g].children # <<>>) => node'[g].kind # "PartialNode"
        /\ NeverChangedDir(cwd', prevwd') => EmptyJoined(node') = {} ]_vars

\* a move out of a JoinedGroup that held nothing else
C15_Witness ==
    /\ out.op = "mv" /\ out.res = "ok"
    /\ out.src \in Reachable(node)
    /\ NeverChangedDir(cwd, prevwd)
    /\ Cardinality(JoinedGroups(node)) < Cardinality(JoinedGroups(_from_state_dict(inp).node))
    /\ Cardinality(LeavesOf(node)) = Cardinality(LeavesOf(_from_state_dict(inp).node))

-----------------------------------------------------------------------------
(* C16: insert creates every missing segment of the group path as a        *)
(* JoinedGroup and reuses the groups that exist, each serializing by its   *)
(* own convention: Leaf("z", 5) inserted at "/x/y" into the tree built     *)
(* from {} serializes to {"x.y.z": 5}, and into a tree where /x/y exist as *)
(* Groups to {"x": {"y": {"z": 5}}}; the returned group is the node at     *)
(* group_path and holds the inserted node.                                 *)
Built == _from_state_dict(inp).node

\* how many leading segments of the path name existing nodes of the tree
RECURSIVE Existing(_, _, _)
Existing(nd, segs, k) ==
    IF k < Len(segs) /\ resolve(nd, Abs(SubSeq(segs, 1, k + 1)), Root) # None
    THEN Existing(nd, segs, k + 1)
    ELSE k

C16_Insert ==
    (out.op = "insert" /\ out.res = "ok") =>
        LET leaf  == out.src
            segs  == Segs(out.dst)
            g     == resolve(node, out.dst, Root)
            fresh == (Reachable(node) \ Reachable(Built)) \ {leaf}
        IN  /\ g # None /\ is_directory(node, g)
            /\ node[leaf].parent = g
            /\ node[g].children # <<>> /\ Last(node[g].children) = leaf
            /\ node[leaf].name = Z /\ heap[node[leaf].ref] = InsertedValue
            /\ Cardinality(fresh) = Len(segs) - Existing(Built, segs, 0)
            /\ \A x \in fresh :
                  /\ node[x].kind = "PartialNode"
                  /\ \E k \in 1 .. Len(segs) :
                        /\ x = resolve(node, Abs(SubSeq(segs, 1, k)), Root)
                        /\ node[x].name = segs[k]
                  /\ Len(node[x].children) = 1
            /\ \A x \in Reachable(Built) :
                  /\ node[x].kind = Built[x].kind
                  /\ node[x].name = Built[x].name
                  /\ node[x].parent = Built[x].parent
                  /\ \/ node[x].children = Built[x].children
                     \/ \E c \in fresh \cup {leaf} :
                           node[x].children = Append(Built[x].children, c)
            /\ (pc = "serialized" /\ out.dst = Abs(<<X, Y>>)) =>
                  /\ inp = <<>> => ser = << Entry(<<"x", ".", "y", ".", "z">>, L(5)) >>
                  /\ inp = << Entry(X, DictV(<< Entry(Y, DictV(<<>>)) >>)) >> =>
                        ser = << Entry(X, DictV(<< Entry(Y, DictV(<< Entry(Z, L(5)) >>)) >>)) >>
                  /\ inp = << Entry(X, DictV(<< Entry(YdotW, L(1)) >>)) >> =>
                        ser = << Entry(X, DictV(<< Entry(YdotW, L(1)),
                                                   Entry(<<"y", ".", "z">>, L(5)) >>)) >>

\* the insert into the tree built from {}, serialized
C16_Witness ==
    /\ pc = "serialized" /\ out.op = "insert" /\ out.dst = Abs(<<X, Y>>)
    /\ inp = <<>>
    /\ ser = << Entry(<<"x", ".", "y", ".", "z">>, L(5)) >>

-----------------------------------------------------------------------------
(* C17: in every state reached from a built tree by successful mv, cp and  *)
(* rm commands, serialize(root) holds one flat entry for every Leaf        *)
(* reachable from root (no two nodes contribute the same flat key), also   *)
(* when the final name of a destination contains '.'.  Stated for trees    *)
(* whose sibling names are unique.                                         *)
RECURSIVE LeafEntries(_)
LeafEntries(m) ==
    IF m = <<>> THEN 0
    ELSE (IF m[1].val.t = "dict" THEN LeafEntries(m[1].val.m) ELSE 1)
         + LeafEntries(Tail(m))

C17_NoLeafLost ==
    (pc = "run" /\ UniqueSiblings(node)) =>
        LeafEntries(state_dict(node, heap, Root)) = Cardinality(LeavesOf(node))

-----------------------------------------------------------------------------
(* C18: after any sequence of cd, mv, cp and rm commands the current       *)
(* working node is a directory node that is reachable from root, and       *)
(* resolving its full_name from root yields that same node; also after rm  *)
(* of the working directory or of one of its ancestors, and after          *)
(* deletions that prune the working directory.                             *)
C18_CwdValid ==
    pc = "run" =>
        /\ cwd \in Reachable(node)
        /\ is_directory(node, cwd)
        /\ resolve(node, full_name(node, cwd), Root) = cwd

-----------------------------------------------------------------------------
(* C19: for every tree, every start node reachable from root and every     *)
(* path, if resolve(path, node) returns a node n then                      *)
(* resolve_path(path, node) equals n.full_name; resolve_path always        *)
(* returns a string that begins with '/' and contains no '.', '..' or      *)
(* empty segment, '..' above '/' being dropped.                            *)
PlainSegment(x) == x # <<>> /\ x # <<Dot>> /\ x # <<Dot, Dot>>

CanonicalPath(p) ==
    /\ Len(p) > 0 /\ p[1] = Slash
    /\ \/ p = <<Slash>>
       \/ \A i \in 1 .. Len(Split(Tail(p), Slash)) : PlainSegment(Split(Tail(p), Slash)[i])

C19_ResolveAgree ==
    (out.op = "resolve" /\ cwd \in Reachable(node)) =>
        /\ CanonicalPath(resolve_path(node, out.dst, cwd))
        /\ out.src # None => resolve_path(node, out.dst, cwd) = full_name(node, out.src)

\* the same for the start nodes that their own full_name resolves to: these
\* are the nodes a path can name, and for them the two functions agree
C19_AgreeResolvable ==
    (out.op = "resolve" /\ resolve(node, full_name(node, cwd), Root) = cwd) =>
        /\ CanonicalPath(resolve_path(node, out.dst, cwd))
        /\ out.src # None => resolve_path(node, out.dst, cwd) = full_name(node, out.src)

-----------------------------------------------------------------------------
(* C20: over any sequence of mv, cp, rm, save and exit commands, exit/EOF  *)
(* ends the session without asking for the discard confirmation only if    *)
(* the in-memory tree serializes to the mapping that was last loaded or    *)
(* last successfully saved; every successful mv/cp/rm that changes the     *)
(* tree sets dirty, only a successful save clears it, and a failed save    *)
(* leaves dirty and the save path unchanged.                               *)
Persisted == disk[_path]

C20_NoSilentDiscard ==
    [][ /\ (out'.op = "exit" /\ out'.res = "Ended") =>
              /\ Persisted.exists
              /\ MapEq(state_dict(node, heap, Root), Persisted.m)
              /\ pc' = "exited"
        /\ (out'.op = "exit" /\ dirty) =>
              (out'.res \in {"Kept", "Discarded"} /\ (out'.res = "Kept" => pc' = "run"))
        /\ (out'.op \in {"mv", "cp", "rm"} /\ out'.res = "ok" /\ ~TreeUnchanged) => dirty'
        /\ (dirty /\ ~dirty') => (out'.op = "save" /\ out'.res = "ok")
        /\ (out'.op = "save" /\ out'.res = "ok") =>
              /\ ~dirty'
              /\ _path' = out'.dst
              /\ disk'[_path'] = File(state_dict(node, heap, Root))
              /\ TreeUnchanged
        /\ (out'.op = "save" /\ out'.res # "ok") =>
              (dirty' = dirty /\ _path' = _path /\ disk' = disk /\ TreeUnchanged) ]_vars

\* a change, a save to another path, and an exit that does not ask
C20_Witness ==
    /\ pc = "exited" /\ out.op = "exit" /\ out.res = "Ended"
    /\ _path = OtherPath
    /\ ~MapEq(disk[OtherPath].m, inp)
    /\ steps = MaxSteps

-----------------------------------------------------------------------------
(* C21 *)

\* C21: when the checkpoint was loaded in a cpu-only environment and the user
\* confirmed loading onto device cpu, the dirty flag is true once the
\* construction of the shell has completed, so that an exit issued at once
\* asks before discarding
C21_CpuLoadStartsDirty ==
    (pc = "run" /\ out.op = "init" /\ out.res = "cpu") => dirty

====
